---------------------------- MODULE Spec2Model ----------------------------
(***************************************************************************)
(* A model of the morde-rs utility library: the unified application error  *)
(* type (src/src/errors.rs), the check_empty_fields! macro (src/src/lib.rs)*)
(* and the SurrealDB helpers (src/src/surrealdb.rs).                        *)
(*                                                                         *)
(* The library holds no state of its own.  The state of the model is the   *)
(* last call made into the library (call), what it returned (ret), and     *)
(* the logging sink the app_error! macro writes to (sink, log).  made      *)
(* records how the input of the call was put together and prev the call    *)
(* before it, where a component needs them.  Each component has its own    *)
(* specification: its initial states draw a call from a bounded set and    *)
(* its actions apply the library operation called.                         *)
(*                                                                         *)
(* Text that the code only passes around (error codes, messages) is a      *)
(* TLA+ string; text that the code takes apart (tokens, record ids, JSON)  *)
(* is a sequence of one-character strings.                                 *)
(***************************************************************************)
EXTENDS Integers, Sequences, FiniteSets, TLC

VARIABLES call, ret, sink, log, made, prev

vars == <<call, ret, sink, log, made, prev>>

NoCall == [op |-> "none"]
NoRet == [kind |-> "none"]
NotMade == [class |-> "none"]

(***************************************************************************)
(* ErrorModel: src/src/errors.rs                                           *)
(***************************************************************************)

\* http::StatusCode constants the constructors use.
INTERNAL_SERVER_ERROR == 500
NOT_FOUND == 404
BAD_REQUEST == 400
UNAUTHORIZED == 401
CONFLICT == 409

\* http::StatusCode holds a code in 100..=999; u16 is 0..=65535.
StatusCodeMin == 100
StatusCodeMax == 999
U16Max == 65535

\* enum StatusKind { Http(StatusCode), App(u16) }
Http(c) == [kind |-> "Http", code |-> c]
App(n) == [kind |-> "App", code |-> n]

to_http_status_app_passthrough(self) == self.code

to_http_status(self) ==
    IF self.kind = "Http" THEN self.code ELSE INTERNAL_SERVER_ERROR

\* impl From<StatusCode> for StatusKind, impl From<u16> for StatusKind
StatusKind_from_StatusCode(c) == Http(c)
StatusKind_from_u16(n) == App(n)

\* AppError::new
new(status, error, message) ==
    [status |-> status, error |-> error, message |-> message]

internal_server_error(message) ==
    new(Http(INTERNAL_SERVER_ERROR), "INTERNAL_SERVER_ERROR", message)

not_found(error, message) == new(Http(NOT_FOUND), error, message)

bad_request(error, message) == new(Http(BAD_REQUEST), error, message)

unauthorized_takes_code(message) == new(Http(UNAUTHORIZED), message, message)

unauthorized(message) == new(Http(UNAUTHORIZED), "UNAUTHORIZED", message)

conflict(error, message) == new(Http(CONFLICT), error, message)

\* impl IntoResponse for AppError: (status, Json(ErrorResponse{error, message}))
ErrorResponse(error, message) == [error |-> error, message |-> message]

into_response(self) ==
    [status |-> to_http_status(self.status),
     body |-> ErrorResponse(self.error, self.message)]

\* A lower-level error is its chain of messages, outermost first.  Display
\* (to_string, "{err}") of a boxed error, of an eyre::Report and of a
\* surrealdb::Error prints the outermost message only.
to_string(err) == err[1]

from_boxed_error(err) == internal_server_error(to_string(err))

from_surrealdb_error_bare(err) == internal_server_error(to_string(err))

from_surrealdb_error(err) ==
    internal_server_error("Database error: " \o to_string(err))

from_eyre_report(err) == internal_server_error(to_string(err))

(***************************************************************************)
(* app_error!: a macro_rules! macro of seven arms.  Every arm matches the  *)
(* optional internal message under a `$( ... )?` repetition and then names *)
(* it in its body outside of any repetition, and every arm builds its      *)
(* value through the path $crate::types::errors.                           *)
(***************************************************************************)
Categories ==
    {"custom", "http", "bad_request", "not_found", "unauthorized",
     "conflict", "internal_server_error"}

\* The metavariables an arm's matcher binds, with the repetition depth of each.
ArmBinds(cat) ==
    CASE cat = "custom" ->
           {<<"n", 0>>, <<"error", 0>>, <<"msg", 0>>, <<"internal_msg", 1>>}
      [] cat = "http" ->
           {<<"status", 0>>, <<"error", 0>>, <<"msg", 0>>, <<"internal_msg", 1>>}
      [] cat \in {"bad_request", "not_found", "conflict"} ->
           {<<"error", 0>>, <<"msg", 0>>, <<"internal_msg", 1>>}
      [] OTHER ->
           {<<"msg", 0>>, <<"internal_msg", 1>>}

\* The metavariables an arm's body names, with the repetition depth of the use.
ArmUses(cat) == {<<b[1], 0>> : b \in ArmBinds(cat)}

\* macro_rules! transcription: a metavariable bound under a repetition has to
\* be used under as many repetitions ("variable is still repeating at this
\* depth" otherwise, whether or not the optional fragment was given).
StillRepeating(cat) ==
    {u[1] : u \in {x \in ArmUses(cat) :
                     \E b \in ArmBinds(cat) : b[1] = x[1] /\ b[2] > x[2]}}

\* The modules the crate root declares (lib.rs: `pub mod errors;`) and the
\* path the macro's arms name.
CrateModules == {<<"errors">>}
MacroPath == <<"types", "errors">>

ArmLevel(cat) == IF cat = "internal_server_error" THEN "ERROR" ELSE "WARN"

ArmTemplate(cat) ==
    CASE cat = "custom" -> "App Status {}: {} - {}: {}"
      [] cat = "http" -> "HTTP {}: {} - {}: {}"
      [] cat = "bad_request" -> "Bad Request: {} - {}: {}"
      [] cat = "not_found" -> "Not Found: {} - {}: {}"
      [] cat = "unauthorized" -> "Unauthorized: {}: {}"
      [] cat = "conflict" -> "Conflict: {} - {}: {}"
      [] OTHER -> "Internal Server Error: {}: {}"

\* The value the arm's body builds.
ArmValue(cat, a) ==
    CASE cat = "custom" -> new(App(a.code), a.error, a.msg)
      [] cat = "http" -> new(Http(a.code), a.error, a.msg)
      [] cat = "bad_request" -> bad_request(a.error, a.msg)
      [] cat = "not_found" -> not_found(a.error, a.msg)
      [] cat = "unauthorized" -> unauthorized(a.msg)
      [] cat = "conflict" -> conflict(a.error, a.msg)
      [] OTHER -> internal_server_error(a.msg)

\* The fields the arm's tracing call is given.
ArmFields(cat, a) ==
    (CASE cat \in {"custom", "http"} -> <<ToString(a.code), a.error, a.msg>>
       [] cat \in {"bad_request", "not_found", "conflict"} -> <<a.error, a.msg>>
       [] OTHER -> <<a.msg>>)
    \o (IF a.internal.some THEN <<a.internal.text>> ELSE <<>>)

\* One use of the macro: what the build makes of it.
app_error(cat, a) ==
    IF StillRepeating(cat) # {}
    THEN [kind |-> "CompileError", reason |-> "still repeating at this depth"]
    ELSE IF MacroPath \notin CrateModules
    THEN [kind |-> "CompileError", reason |-> "unresolved path"]
    ELSE [kind |-> "Expanded",
          entry |-> [level |-> ArmLevel(cat), template |-> ArmTemplate(cat),
                     fields |-> ArmFields(cat, a)],
          value |-> ArmValue(cat, a)]

\* ---- inputs of the ErrorModel specification ----
Strs == {"", "E", "boom"}
StatusCodes == {StatusCodeMin, NOT_FOUND, INTERNAL_SERVER_ERROR, StatusCodeMax}
AppNums == {0, NOT_FOUND, INTERNAL_SERVER_ERROR, U16Max}
StatusKinds == {Http(c) : c \in StatusCodes} \cup {App(n) : n \in AppNums}
Causes == {<<"boom">>, <<"">>, <<"outer", "inner">>, <<"Database error: x">>}
Internals ==
    {[some |-> FALSE, text |-> ""]} \cup {[some |-> TRUE, text |-> t] : t \in {"", "diag"}}
SinkStates == {"absent", "failing", "working"}

AppErrRet(e) == [kind |-> "AppError", err |-> e]

\* The status an app_error! arm is given: custom(n) a u16, http(status) a
\* StatusCode; the other arms take none.
MacroCodes(cat) ==
    IF cat = "custom" THEN AppNums ELSE IF cat = "http" THEN StatusCodes ELSE {0}

\* The error code an arm is given: the unauthorized and internal_server_error
\* arms take none.
MacroErrors(cat) ==
    IF cat \in {"unauthorized", "internal_server_error"} THEN {""} ELSE Strs

MacroCalls ==
    UNION {{[op |-> "app_error", category |-> cat,
             args |-> [code |-> c, error |-> e, msg |-> m, internal |-> i]] :
              c \in MacroCodes(cat), e \in MacroErrors(cat), m \in Strs, i \in Internals} :
           cat \in Categories}

\* The calls into the ErrorModel.
ErrorCalls ==
    {[op |-> "new", status |-> s, error |-> e, message |-> m] :
        s \in StatusKinds, e \in Strs, m \in Strs}
    \cup {[op |-> o, error |-> "", message |-> m] :
            o \in {"internal_server_error", "unauthorized"}, m \in Strs}
    \cup {[op |-> o, error |-> e, message |-> m] :
            o \in {"not_found", "bad_request", "conflict"}, e \in Strs, m \in Strs}
    \cup {[op |-> "to_http_status", status |-> s] : s \in StatusKinds}
    \cup {[op |-> "into_response", self |-> new(s, e, m)] :
            s \in StatusKinds, e \in Strs, m \in Strs}
    \cup {[op |-> "from", source |-> t, cause |-> c] :
            t \in {"Box<dyn Error>", "surrealdb::Error", "eyre::Report"}, c \in Causes}
    \cup MacroCalls

\* A call has been made and has not returned yet.
Pending(op) == call.op = op /\ ret = NoRet

\* The call has returned.
Done == ret # NoRet

InitErrors ==
    /\ call \in ErrorCalls
    /\ ret = NoRet
    /\ sink \in SinkStates
    /\ log = <<>>
    /\ made = NotMade
    /\ prev = NoRet

Quiet == UNCHANGED <<call, sink, log, made, prev>>

New ==
    /\ Pending("new")
    /\ ret' = AppErrRet(new(call.status, call.error, call.message))
    /\ Quiet

InternalServerError ==
    /\ Pending("internal_server_error")
    /\ ret' = AppErrRet(internal_server_error(call.message))
    /\ Quiet

NotFound ==
    /\ Pending("not_found")
    /\ ret' = AppErrRet(not_found(call.error, call.message))
    /\ Quiet

BadRequest ==
    /\ Pending("bad_request")
    /\ ret' = AppErrRet(bad_request(call.error, call.message))
    /\ Quiet

Unauthorized ==
    /\ Pending("unauthorized")
    /\ ret' = AppErrRet(unauthorized(call.message))
    /\ Quiet

Conflict ==
    /\ Pending("conflict")
    /\ ret' = AppErrRet(conflict(call.error, call.message))
    /\ Quiet

ToHttpStatus ==
    /\ Pending("to_http_status")
    /\ ret' = [kind |-> "StatusCode", code |-> to_http_status(call.status)]
    /\ Quiet

IntoResponse ==
    /\ Pending("into_response")
    /\ ret' = [kind |-> "Response", response |-> into_response(call.self)]
    /\ Quiet

FromBoxedError ==
    /\ Pending("from")
    /\ call.source = "Box<dyn Error>"
    /\ ret' = AppErrRet(from_boxed_error(call.cause))
    /\ Quiet

FromSurrealdbError ==
    /\ Pending("from")
    /\ call.source = "surrealdb::Error"
    /\ ret' = AppErrRet(from_surrealdb_error(call.cause))
    /\ Quiet

FromEyreReport ==
    /\ Pending("from")
    /\ call.source = "eyre::Report"
    /\ ret' = AppErrRet(from_eyre_report(call.cause))
    /\ Quiet

\* app_error!(cat, ...): the log entry reaches the log only through a working
\* sink; the value returned does not depend on the sink.
AppErrorMacro ==
    /\ Pending("app_error")
    /\ LET x == app_error(call.category, call.args)
       IN /\ ret' = IF x.kind = "Expanded" THEN AppErrRet(x.value) ELSE x
          /\ log' = IF x.kind = "Expanded" /\ sink = "working"
                    THEN <<x.entry>> ELSE <<>>
    /\ UNCHANGED <<call, sink, made, prev>>

NextErrors ==
    \/ New
    \/ InternalServerError
    \/ NotFound
    \/ BadRequest
    \/ Unauthorized
    \/ Conflict
    \/ ToHttpStatus
    \/ IntoResponse
    \/ FromBoxedError
    \/ FromSurrealdbError
    \/ FromEyreReport
    \/ AppErrorMacro

SpecErrors == InitErrors /\ [][NextErrors]_vars

(***************************************************************************)
(* Claims about the ErrorModel, checked under SpecErrors.                  *)
(***************************************************************************)

\* C10: each convenience constructor builds an AppError whose status maps
\* under to_http_status to its documented code (500, 404, 400, 401, 409), whose
\* message is the message given, and whose error code is the code given, except
\* that unauthorized fixes it to "UNAUTHORIZED" and internal_server_error to
\* "INTERNAL_SERVER_ERROR"; no input, the empty string included, makes it fail.
C10_ConstructorsFixStatus ==
    LET code == CASE call.op = "internal_server_error" -> 500
                  [] call.op = "not_found" -> 404
                  [] call.op = "bad_request" -> 400
                  [] call.op = "unauthorized" -> 401
                  [] call.op = "conflict" -> 409
        error == CASE call.op = "internal_server_error" -> "INTERNAL_SERVER_ERROR"
                   [] call.op = "unauthorized" -> "UNAUTHORIZED"
                   [] OTHER -> call.error
    IN Done /\ call.op \in {"internal_server_error", "not_found", "bad_request",
                            "unauthorized", "conflict"}
       => /\ ret.kind = "AppError"
          /\ to_http_status(ret.err.status) = code
          /\ ret.err.status.kind = "Http"
          /\ ret.err.message = call.message
          /\ ret.err.error = error

C10_Witness ==
    /\ Done
    /\ call.op = "unauthorized"
    /\ call.message = ""
    /\ ret.kind = "AppError"
    /\ ret.err.error = "UNAUTHORIZED"
    /\ ret.err.status.code = 401

\* C9: to_http_status is total: Http(c) maps to c, App(n) maps to 500 for every
\* n (0, 65535 and 404 included); into_response uses exactly that code as the
\* status, and its body holds only the error's code and message, unchanged.
C9_StatusMapping ==
    LET expect(s) == IF s.kind = "Http" THEN s.code ELSE 500
    IN /\ Done /\ call.op = "to_http_status"
          => ret.kind = "StatusCode" /\ ret.code = expect(call.status)
       /\ Done /\ call.op = "into_response"
          => /\ ret.kind = "Response"
             /\ ret.response.status = expect(call.self.status)
             /\ DOMAIN ret.response.body = {"error", "message"}
             /\ ret.response.body.error = call.self.error
             /\ ret.response.body.message = call.self.message

C9_Witness ==
    /\ Done
    /\ call.op = "into_response"
    /\ call.self.status = App(404)
    /\ call.self.message = "boom"
    /\ ret.response.status = 500
    /\ ret.response.body.message = "boom"

\* C7 as stated: every conversion from a lower-level error (boxed error, eyre
\* report, surrealdb::Error) yields internal_server_error(description): status
\* Http(500), code "INTERNAL_SERVER_ERROR", and the cause's description as the
\* message with nothing added or removed.
C7_ConversionKeepsDescription ==
    Done /\ call.op = "from"
    => ret = AppErrRet([status |-> Http(500), error |-> "INTERNAL_SERVER_ERROR",
                        message |-> Head(call.cause)])

\* C7 amended: the conversions from a boxed error and from an eyre report yield
\* status Http(500), code "INTERNAL_SERVER_ERROR" and the cause's description as
\* the message; the conversion from surrealdb::Error yields the same status and
\* code, and the message "Database error: " followed by the description.
C7_ConversionPrefixesDatabaseErrors ==
    Done /\ call.op = "from"
    => ret = AppErrRet([status |-> Http(500), error |-> "INTERNAL_SERVER_ERROR",
                        message |-> IF call.source = "surrealdb::Error"
                                    THEN "Database error: " \o Head(call.cause)
                                    ELSE Head(call.cause)])

C7_Witness ==
    /\ Done
    /\ call.op = "from"
    /\ call.source = "surrealdb::Error"
    /\ call.cause = <<"outer", "inner">>
    /\ ret.err.message = "Database error: outer"

\* C8: app_error! is total for each of its seven categories, with and without
\* the internal message: it emits one log entry holding all the fields given, at
\* WARN level for every category but internal_server_error (ERROR), and returns
\* the AppError the category's constructor returns, whatever the sink's state.
C8_MacroLogsAndConstructs ==
    LET a == call.args
        value == CASE call.category = "custom" -> new(App(a.code), a.error, a.msg)
                   [] call.category = "http" -> new(Http(a.code), a.error, a.msg)
                   [] call.category = "bad_request" -> new(Http(400), a.error, a.msg)
                   [] call.category = "not_found" -> new(Http(404), a.error, a.msg)
                   [] call.category = "unauthorized" ->
                        new(Http(401), "UNAUTHORIZED", a.msg)
                   [] call.category = "conflict" -> new(Http(409), a.error, a.msg)
                   [] OTHER -> new(Http(500), "INTERNAL_SERVER_ERROR", a.msg)
        level == IF call.category = "internal_server_error" THEN "ERROR" ELSE "WARN"
    IN Done /\ call.op = "app_error"
       => /\ ret = AppErrRet(value)
          /\ sink = "working"
             => /\ Len(log) = 1
                /\ log[1].level = level
                /\ \E i \in 1..Len(log[1].fields) : log[1].fields[i] = a.msg
                /\ a.internal.some
                   => log[1].fields[Len(log[1].fields)] = a.internal.text

(***************************************************************************)
(* FieldValidator: the check_empty_fields! macro of src/src/lib.rs         *)
(***************************************************************************)

\* A field of the payload is an Option<T>: absent, or a value of a type T that
\* the macro sees as `&dyn Any`.  text is the value's content.
None == [some |-> FALSE, type_id |-> "", text |-> ""]
Some(t, x) == [some |-> TRUE, type_id |-> t, text |-> x]

\* (v as &dyn Any).downcast_ref::<String>(): the value as a String when its
\* type is String, and nothing otherwise.
downcast_ref_String(v) ==
    IF v.type_id = "String" THEN [some |-> TRUE, s |-> v.text]
    ELSE [some |-> FALSE, s |-> ""]

is_empty(s) == s = ""

\* .map(|s| s.is_empty()).unwrap_or(false)
field_is_empty(v) ==
    LET d == downcast_ref_String(v) IN IF d.some THEN is_empty(d.s) ELSE FALSE

\* $payload.$field.as_ref().map(|v| ...).unwrap_or(true)
field_is_missing(opt) == IF opt.some THEN field_is_empty(opt) ELSE TRUE

\* The macro's repetition with a name pushed only once.
RECURSIVE check_fields_dedup(_, _, _, _)
check_fields_dedup(payload, fields, i, missing) ==
    IF i > Len(fields) THEN missing
    ELSE check_fields_dedup(payload, fields, i + 1,
             IF /\ field_is_missing(payload[fields[i]])
                /\ \A j \in 1..Len(missing) : missing[j] # fields[i]
             THEN Append(missing, fields[i]) ELSE missing)

\* The macro's repetition, one field after the other: push the field's name
\* when the field is missing.
RECURSIVE check_fields_from(_, _, _, _)
check_fields_from(payload, fields, i, missing) ==
    IF i > Len(fields) THEN missing
    ELSE check_fields_from(payload, fields, i + 1,
             IF field_is_missing(payload[fields[i]])
             THEN Append(missing, fields[i]) ELSE missing)

check_empty_fields(payload, fields) ==
    check_fields_from(payload, fields, 1, <<>>)

\* ---- inputs of the FieldValidator specification ----
MaxFields == 3
FieldNames == {"name", "email", "count"}
FieldValues ==
    {None, Some("String", ""), Some("String", "bob"), Some("i32", "0"),
     Some("&str", "")}
FieldPayloads == [FieldNames -> FieldValues]
FieldLists == UNION {[1..n -> FieldNames] : n \in 0..MaxFields}

InitFields ==
    /\ call \in {[op |-> "check_empty_fields", payload |-> p, fields |-> f] :
                   p \in FieldPayloads, f \in FieldLists}
    /\ ret = NoRet
    /\ sink = "absent"
    /\ log = <<>>
    /\ made = NotMade
    /\ prev = NoRet

CheckEmptyFields ==
    /\ Pending("check_empty_fields")
    /\ ret' = [kind |-> "Vec", missing |-> check_empty_fields(call.payload, call.fields)]
    /\ Quiet

NextFields == CheckEmptyFields

SpecFields == InitFields /\ [][NextFields]_vars

\* C1: check_empty_fields returns exactly the subsequence of the field list
\* made of the fields that are absent (None) or present with an empty String,
\* in input order, one entry per occurrence in the list; a present value that
\* is not a String and a present non-empty String are never reported.
C1_MissingIsTheQualifyingSubsequence ==
    LET qualifies(f) ==
            \/ ~call.payload[f].some
            \/ call.payload[f].type_id = "String" /\ call.payload[f].text = ""
    IN Done /\ call.op = "check_empty_fields"
       => /\ ret.kind = "Vec"
          /\ ret.missing = SelectSeq(call.fields, qualifies)

C1_Witness ==
    /\ Done
    /\ call.op = "check_empty_fields"
    /\ call.fields = <<"name", "count", "name">>
    /\ call.payload["name"] = Some("String", "")
    /\ call.payload["count"] = Some("i32", "0")
    /\ ret.missing = <<"name", "name">>

(***************************************************************************)
(* RecordIdCodec: string_to_record_id and serialize_record_id of           *)
(* src/src/surrealdb.rs                                                    *)
(***************************************************************************)

AsciiDigits == {"0", "1", "2", "3", "4", "5", "6", "7", "8", "9"}
AsciiLower ==
    {"a", "b", "c", "d", "e", "f", "g", "h", "i", "j", "k", "l", "m",
     "n", "o", "p", "q", "r", "s", "t", "u", "v", "w", "x", "y", "z"}
AsciiUpper ==
    {"A", "B", "C", "D", "E", "F", "G", "H", "I", "J", "K", "L", "M",
     "N", "O", "P", "Q", "R", "S", "T", "U", "V", "W", "X", "Y", "Z"}

\* str::contains(char)
contains(s, c) == \E i \in 1..Len(s) : s[i] = c

\* str::split(char): the pieces between the delimiters, empty pieces kept; a
\* string without the delimiter (the empty string too) is one piece.  The
\* k-th piece lies between the (k-1)-th and the k-th delimiter.
split(s, d) ==
    LET at == {i \in 1..Len(s) : s[i] = d}
        n == Cardinality(at)
        cut(k) == IF k = 0 THEN 0
                  ELSE IF k = n + 1 THEN Len(s) + 1
                  ELSE CHOOSE i \in at : Cardinality({j \in at : j < i}) = k - 1
    IN [k \in 1..(n + 1) |-> SubSeq(s, cut(k - 1) + 1, cut(k) - 1)]

\* RecordId::from((table, key)) with a &str key: a key of the String kind.
RecordId_from(table, key) ==
    [table |-> table, key |-> [kind |-> "String", value |-> key]]

\* string_to_record_id with `parts.len() < 2` for `parts.len() != 2`
string_to_record_id_first_two(s) ==
    IF s = <<>> THEN [kind |-> "None"]
    ELSE IF ~contains(s, ":") THEN [kind |-> "None"]
    ELSE LET parts == split(s, ":")
         IN IF Len(parts) < 2 THEN [kind |-> "None"]
            ELSE [kind |-> "Some", id |-> RecordId_from(parts[1], parts[2])]

\* parts[0] and parts[1] are indexed: out of range they would panic.
string_to_record_id(s) ==
    IF s = <<>> THEN [kind |-> "None"]
    ELSE IF ~contains(s, ":") THEN [kind |-> "None"]
    ELSE LET parts == split(s, ":")
         IN IF Len(parts) # 2 THEN [kind |-> "None"]
            ELSE IF Len(parts) < 2 THEN [kind |-> "Panic"]
            ELSE [kind |-> "Some", id |-> RecordId_from(parts[1], parts[2])]

\* Display of a record id key of the String kind (surrealdb's escape_rid):
\* the text as it is when it is made of ASCII letters, digits and '_' and is
\* not all digits; otherwise the text between angle brackets, each closing
\* bracket in it escaped.
BRACKETL == "⟨"
BRACKETR == "⟩"

RECURSIVE replace_bracket(_, _)
replace_bracket(v, i) ==
    IF i > Len(v) THEN <<>>
    ELSE (IF v[i] = BRACKETR THEN <<"\\", BRACKETR>> ELSE <<v[i]>>)
         \o replace_bracket(v, i + 1)

escape_rid(v) ==
    IF \/ \E i \in 1..Len(v) : v[i] \notin AsciiDigits \cup AsciiLower \cup AsciiUpper \cup {"_"}
       \/ \A i \in 1..Len(v) : v[i] \in AsciiDigits
    THEN <<BRACKETL>> \o replace_bracket(v, 1) \o <<BRACKETR>>
    ELSE v

RecordIdKey_to_string(key) == escape_rid(key.value)

\* serializer.serialize_str(&id.key().to_string())
serialize_record_id(id) == RecordIdKey_to_string(id.key)

\* ---- inputs of the RecordIdCodec specification ----
MaxIdLen == 4
IdChars == {"a", "1", ":", "-"}
IdStrings == UNION {[1..n -> IdChars] : n \in 0..MaxIdLen}

InitRecordId ==
    /\ call \in {[op |-> "string_to_record_id", s |-> s] : s \in IdStrings}
    /\ ret = NoRet
    /\ sink = "absent"
    /\ log = <<>>
    /\ made = NotMade
    /\ prev = NoRet

StringToRecordId ==
    /\ Pending("string_to_record_id")
    /\ ret' = string_to_record_id(call.s)
    /\ Quiet

\* The identifier a parse returned is serialized; s stays as the record of the
\* string the identifier was parsed from.
SerializeRecordId ==
    /\ call.op = "string_to_record_id"
    /\ ret.kind = "Some"
    /\ call' = [op |-> "serialize_record_id", s |-> call.s, id |-> ret.id]
    /\ ret' = [kind |-> "Str", text |-> serialize_record_id(ret.id)]
    /\ UNCHANGED <<sink, log, made, prev>>

NextRecordId == StringToRecordId \/ SerializeRecordId

SpecRecordId == InitRecordId /\ [][NextRecordId]_vars

Colons(s) == {i \in 1..Len(s) : s[i] = ":"}
BeforeColon(s) == SubSeq(s, 1, (CHOOSE i \in Colons(s) : TRUE) - 1)
AfterColon(s) == SubSeq(s, (CHOOSE i \in Colons(s) : TRUE) + 1, Len(s))

\* C5: string_to_record_id returns no value exactly when s is empty, has no
\* ':' or has more than one ':'; for every other s (exactly one ':', an empty
\* part before or after it included) it returns the RecordId whose table is the
\* part before the colon and whose key is the part after it; it never fails.
C5_ParseNeedsExactlyOneColon ==
    Done /\ call.op = "string_to_record_id"
    => /\ ret.kind \in {"None", "Some"}
       /\ ret.kind = "None" <=> Cardinality(Colons(call.s)) # 1
       /\ ret.kind = "Some"
          => /\ ret.id.table = BeforeColon(call.s)
             /\ ret.id.key.value = AfterColon(call.s)

C5_Witness ==
    /\ Done
    /\ call.op = "string_to_record_id"
    /\ call.s = <<"a", ":">>
    /\ ret.kind = "Some"
    /\ ret.id.table = <<"a">>
    /\ ret.id.key.value = <<>>

\* C6: for every table t and key k without ':', serializing the identifier
\* parsed from t ":" k gives the string k exactly (no table, nothing added to
\* or removed from the key text), and the identifier's table is t.
C6_SerializedKeyIsTheKeyText ==
    Done /\ call.op = "serialize_record_id"
    => /\ ret.text = AfterColon(call.s)
       /\ call.id.table = BeforeColon(call.s)

(***************************************************************************)
(* TokenClaims: decode_payload_insecurely of src/src/surrealdb.rs          *)
(***************************************************************************)

\* The URL-safe base64 alphabet; a symbol's value is its place in it, less one.
B64Alphabet ==
    <<"A", "B", "C", "D", "E", "F", "G", "H", "I", "J", "K", "L", "M",
      "N", "O", "P", "Q", "R", "S", "T", "U", "V", "W", "X", "Y", "Z",
      "a", "b", "c", "d", "e", "f", "g", "h", "i", "j", "k", "l", "m",
      "n", "o", "p", "q", "r", "s", "t", "u", "v", "w", "x", "y", "z",
      "0", "1", "2", "3", "4", "5", "6", "7", "8", "9", "-", "_">>

B64Symbols == {B64Alphabet[i] : i \in 1..Len(B64Alphabet)}

B64Value == [c \in B64Symbols |-> (CHOOSE i \in 1..Len(B64Alphabet) : B64Alphabet[i] = c) - 1]

\* The bytes a symbol string stands for: 6 bits a symbol, 8 bits a byte.
b64_bytes(seg) ==
    [j \in 1..((Len(seg) * 6) \div 8) |->
        LET off == (j - 1) * 8
            k == off \div 6 + 1
            r == off % 6
            hi == B64Value[seg[k]]
            lo == B64Value[seg[k + 1]]
        IN CASE r = 0 -> hi * 4 + lo \div 16
             [] r = 2 -> (hi % 16) * 16 + lo \div 4
             [] OTHER -> (hi % 4) * 64 + lo]

\* The bits of the last symbol that belong to no byte.
b64_trailing_bits(seg) ==
    CASE Len(seg) % 4 = 2 -> B64Value[seg[Len(seg)]] % 16
      [] Len(seg) % 4 = 3 -> B64Value[seg[Len(seg)]] % 4
      [] OTHER -> 0

DecodeError == [ok |-> FALSE, bytes |-> <<>>]

\* URL_SAFE_NO_PAD.decode: every symbol of the alphabet ('=' is none: no
\* padding is taken), a length that is no single symbol over a multiple of
\* four, and no bits set after the last byte.
URL_SAFE_NO_PAD_decode(seg) ==
    IF \E i \in 1..Len(seg) : seg[i] \notin B64Symbols THEN DecodeError
    ELSE IF Len(seg) % 4 = 1 THEN DecodeError
    ELSE IF b64_trailing_bits(seg) # 0 THEN DecodeError
    ELSE [ok |-> TRUE, bytes |-> b64_bytes(seg)]

\* URL_SAFE_NO_PAD.encode
URL_SAFE_NO_PAD_encode(bytes) ==
    [k \in 1..((Len(bytes) * 8 + 5) \div 6) |->
        LET off == (k - 1) * 6
            j == off \div 8 + 1
            r == off % 8
            b == bytes[j]
            nxt == IF j < Len(bytes) THEN bytes[j + 1] ELSE 0
        IN B64Alphabet[1 + (CASE r = 0 -> b \div 4
                              [] r = 6 -> (b % 4) * 16 + nxt \div 16
                              [] r = 4 -> (b % 16) * 4 + nxt \div 64
                              [] OTHER -> b % 64)]]

\* The printable ASCII characters, from the space (32) to the tilde (126); the
\* grave accent (96) goes by its name.
AsciiPrintable ==
    <<" ", "!", "\"", "#", "$", "%", "&", "'", "(", ")", "*", "+", ",",
      "-", ".", "/", "0", "1", "2", "3", "4", "5", "6", "7", "8", "9",
      ":", ";", "<", "=", ">", "?", "@", "A", "B", "C", "D", "E", "F",
      "G", "H", "I", "J", "K", "L", "M", "N", "O", "P", "Q", "R", "S",
      "T", "U", "V", "W", "X", "Y", "Z", "[", "\\", "]", "^", "_", "GRAVE",
      "a", "b", "c", "d", "e", "f", "g", "h", "i", "j", "k", "l", "m",
      "n", "o", "p", "q", "r", "s", "t", "u", "v", "w", "x", "y", "z",
      "{", "|", "}", "~">>

AsciiCode ==
    [c \in {AsciiPrintable[i] : i \in 1..Len(AsciiPrintable)} |->
        (CHOOSE i \in 1..Len(AsciiPrintable) : AsciiPrintable[i] = c) + 31]

\* The text as bytes (the texts of the model are ASCII).
char_byte(c) ==
    CASE c = "\t" -> 9
      [] c = "\n" -> 10
      [] c = "\r" -> 13
      [] OTHER -> AsciiCode[c]

as_bytes(s) == [i \in 1..Len(s) |-> char_byte(s[i])]

\* A byte as the parser sees it: an ASCII character, a JSON whitespace
\* control, or a byte that is neither ("bad").
byte_char(b) ==
    CASE b >= 32 /\ b <= 126 -> AsciiPrintable[b - 31]
      [] b = 9 -> "\t"
      [] b = 10 -> "\n"
      [] b = 13 -> "\r"
      [] OTHER -> "bad"

(***************************************************************************)
(* serde_json::from_slice::<SurrealJWTClaims<T>>.  The parser covers JSON  *)
(* objects whose values are strings (with the escapes \" \\ \/) and        *)
(* integers, which is what the claims hold; the inputs of the model hold   *)
(* no other JSON value.                                                    *)
(***************************************************************************)
JsonFail == [ok |-> FALSE]

is_ws(c) == c \in {" ", "\t", "\n", "\r"}

RECURSIVE skip_ws(_, _)
skip_ws(s, i) == IF i <= Len(s) /\ is_ws(s[i]) THEN skip_ws(s, i + 1) ELSE i

\* The rest of a string, from after its opening quote to its closing quote.
RECURSIVE scan_string(_, _, _)
scan_string(s, i, acc) ==
    IF i > Len(s) THEN JsonFail
    ELSE IF s[i] = "\"" THEN [ok |-> TRUE, str |-> acc, next |-> i + 1]
    ELSE IF s[i] = "\\"
         THEN IF i < Len(s) /\ s[i + 1] \in {"\"", "\\", "/"}
              THEN scan_string(s, i + 2, Append(acc, s[i + 1]))
              ELSE JsonFail
    ELSE IF s[i] \in {"\t", "\n", "\r", "bad"} THEN JsonFail
    ELSE scan_string(s, i + 1, Append(acc, s[i]))

DigitValue == [c \in AsciiDigits |-> AsciiCode[c] - AsciiCode["0"]]

RECURSIVE scan_digits(_, _, _)
scan_digits(s, i, n) ==
    IF i <= Len(s) /\ s[i] \in AsciiDigits
    THEN scan_digits(s, i + 1, n * 10 + DigitValue[s[i]])
    ELSE [n |-> n, next |-> i]

\* A value: a string or an integer (a leading zero ends the integer).
parse_value(s, i) ==
    IF i > Len(s) THEN JsonFail
    ELSE IF s[i] = "\""
    THEN LET x == scan_string(s, i + 1, <<>>)
         IN IF ~x.ok THEN JsonFail
            ELSE [ok |-> TRUE, t |-> "str", neg |-> FALSE, n |-> 0, str |-> x.str,
                  next |-> x.next]
    ELSE LET neg == s[i] = "-"
             j == IF neg THEN i + 1 ELSE i
         IN IF j > Len(s) \/ s[j] \notin AsciiDigits THEN JsonFail
            ELSE LET d == IF s[j] = "0" THEN [n |-> 0, next |-> j + 1]
                          ELSE scan_digits(s, j, 0)
                 IN IF d.next <= Len(s) /\ s[d.next] \in {".", "e", "E"} THEN JsonFail
                    ELSE [ok |-> TRUE, t |-> "num", neg |-> neg, n |-> d.n,
                          str |-> <<>>, next |-> d.next]

\* struct SurrealJWTClaims<T>: the wire name and the type of each field.
ClaimsFields ==
    <<[key |-> <<"i", "a", "t">>, ty |-> "u64"],
      [key |-> <<"n", "b", "f">>, ty |-> "u64"],
      [key |-> <<"e", "x", "p">>, ty |-> "u64"],
      [key |-> <<"i", "s", "s">>, ty |-> "String"],
      [key |-> <<"j", "t", "i">>, ty |-> "String"],
      [key |-> <<"N", "S">>, ty |-> "String"],
      [key |-> <<"D", "B">>, ty |-> "String"],
      [key |-> <<"A", "C">>, ty |-> "T"],
      [key |-> <<"I", "D">>, ty |-> "String"]>>

NFields == Len(ClaimsFields)

field_index(key) ==
    IF \E f \in 1..NFields : ClaimsFields[f].key = key
    THEN CHOOSE f \in 1..NFields : ClaimsFields[f].key = key
    ELSE 0

\* Whether a value deserializes as the type: u64 takes a non-negative integer,
\* String a string.
fits(v, ty) ==
    CASE ty = "u64" -> v.t = "num" /\ ~v.neg
      [] OTHER -> v.t = "str"

Absent == [present |-> FALSE, t |-> "", n |-> 0, str |-> <<>>]
Present(v) == [present |-> TRUE, t |-> v.t, n |-> v.n, str |-> v.str]

\* The members of an object, from where a key is expected: a field of the
\* struct is taken once and has to fit its type; any other key is passed over.
RECURSIVE parse_members(_, _, _, _)
parse_members(s, i, T, seen) ==
    LET j == skip_ws(s, i)
    IN IF j > Len(s) \/ s[j] # "\"" THEN JsonFail
       ELSE LET k == scan_string(s, j + 1, <<>>)
            IN IF ~k.ok THEN JsonFail
               ELSE LET c == skip_ws(s, k.next)
                    IN IF c > Len(s) \/ s[c] # ":" THEN JsonFail
                       ELSE LET v == parse_value(s, skip_ws(s, c + 1))
                                f == field_index(k.str)
                            IN IF ~v.ok THEN JsonFail
                               ELSE IF f > 0 /\ seen[f].present THEN JsonFail
                               ELSE IF f > 0 /\ ~fits(v, IF ClaimsFields[f].ty = "T" THEN T
                                                         ELSE ClaimsFields[f].ty)
                                    THEN JsonFail
                               ELSE LET seen2 == IF f > 0 THEN [seen EXCEPT ![f] = Present(v)]
                                                 ELSE seen
                                        e == skip_ws(s, v.next)
                                    IN IF e > Len(s) THEN JsonFail
                                       ELSE IF s[e] = "," THEN parse_members(s, e + 1, T, seen2)
                                       ELSE IF s[e] = "}"
                                            THEN [ok |-> TRUE, seen |-> seen2, next |-> e + 1]
                                       ELSE JsonFail

\* The claims a complete set of fields makes.
claims_of(seen) ==
    [iat |-> seen[1].n, nbf |-> seen[2].n, exp |-> seen[3].n,
     iss |-> seen[4].str, jti |-> seen[5].str, ns |-> seen[6].str,
     db |-> seen[7].str,
     ac |-> [t |-> seen[8].t, n |-> seen[8].n, str |-> seen[8].str],
     id |-> seen[9].str]

\* from_slice with #[serde(default)] on the struct: a field that is missing
\* takes its type's default.
from_slice_default(bytes, T) ==
    LET s == [i \in 1..Len(bytes) |-> byte_char(bytes[i])]
        i == skip_ws(s, 1)
        none == [f \in 1..NFields |-> Absent]
    IN IF i > Len(s) \/ s[i] # "{" THEN JsonFail
       ELSE LET j == skip_ws(s, i + 1)
                m == IF j <= Len(s) /\ s[j] = "}"
                     THEN [ok |-> TRUE, seen |-> none, next |-> j + 1]
                     ELSE parse_members(s, i + 1, T, none)
            IN IF ~m.ok THEN JsonFail
               ELSE IF skip_ws(s, m.next) <= Len(s) THEN JsonFail
               ELSE [ok |-> TRUE, claims |-> claims_of(m.seen)]

\* from_slice: one object, every field of the struct in it, and nothing but
\* whitespace after it.
from_slice(bytes, T) ==
    LET s == [i \in 1..Len(bytes) |-> byte_char(bytes[i])]
        i == skip_ws(s, 1)
        none == [f \in 1..NFields |-> Absent]
    IN IF i > Len(s) \/ s[i] # "{" THEN JsonFail
       ELSE LET j == skip_ws(s, i + 1)
                m == IF j <= Len(s) /\ s[j] = "}"
                     THEN [ok |-> TRUE, seen |-> none, next |-> j + 1]
                     ELSE parse_members(s, i + 1, T, none)
            IN IF ~m.ok THEN JsonFail
               ELSE IF \E f \in 1..NFields : ~m.seen[f].present THEN JsonFail
               ELSE IF skip_ws(s, m.next) <= Len(s) THEN JsonFail
               ELSE [ok |-> TRUE, claims |-> claims_of(m.seen)]

Err(e) == [kind |-> "Err", error |-> e]
Ok(c) == [kind |-> "Ok", claims |-> c]

\* decode_payload_insecurely that holds the token to three parts, as its
\* documentation words it.
decode_payload_three_parts(token, T) ==
    LET parts == split(token, ".")
    IN IF Len(parts) # 3 THEN Err("Invalid JWT format: missing payload")
       ELSE LET decoded_payload_bytes == URL_SAFE_NO_PAD_decode(parts[2])
            IN IF ~decoded_payload_bytes.ok THEN Err("base64::DecodeError")
               ELSE LET claims == from_slice(decoded_payload_bytes.bytes, T)
                    IN IF ~claims.ok THEN Err("serde_json::Error")
                       ELSE Ok(claims.claims)

\* parts.nth(1).ok_or(..)?, URL_SAFE_NO_PAD.decode(..)?, from_slice(..)?: the
\* error is the first stage's that fails, boxed.
decode_payload_insecurely(token, T) ==
    LET parts == split(token, ".")
    IN IF Len(parts) < 2 THEN Err("Invalid JWT format: missing payload")
       ELSE LET decoded_payload_bytes == URL_SAFE_NO_PAD_decode(parts[2])
            IN IF ~decoded_payload_bytes.ok THEN Err("base64::DecodeError")
               ELSE LET claims == from_slice(decoded_payload_bytes.bytes, T)
                    IN IF ~claims.ok THEN Err("serde_json::Error")
                       ELSE Ok(claims.claims)

(***************************************************************************)
(* The tokens of the model.  A payload is made the way an issuer makes it, *)
(* serde_json::to_vec of the claims and URL_SAFE_NO_PAD.encode of that, or *)
(* is spoilt at one of the three stages; made records which.               *)
(***************************************************************************)
NumV(n) == [t |-> "num", neg |-> FALSE, n |-> n, str |-> <<>>]
NegV(n) == [t |-> "num", neg |-> TRUE, n |-> n, str |-> <<>>]
StrV(x) == [t |-> "str", neg |-> FALSE, n |-> 0, str |-> x]

RECURSIVE digits(_)
digits(n) ==
    IF n < 10 THEN <<AsciiPrintable[n + 17]>>
    ELSE digits(n \div 10) \o <<AsciiPrintable[(n % 10) + 17]>>

\* A value as JSON (the texts of the model hold no character to escape).
value_json(v) ==
    IF v.t = "num" THEN (IF v.neg THEN <<"-">> ELSE <<>>) \o digits(v.n)
    ELSE <<"\"">> \o v.str \o <<"\"">>

RECURSIVE members_json(_, _, _)
members_json(ms, i, sep) ==
    IF i > Len(ms) THEN <<>>
    ELSE (IF i > 1 THEN sep ELSE <<>>)
         \o <<"\"">> \o ms[i].key \o <<"\"", ":">> \o value_json(ms[i].val)
         \o members_json(ms, i + 1, sep)

\* An object of the members, compact (to_vec) or spaced out.
object_json(ms) == <<"{">> \o members_json(ms, 1, <<",">>) \o <<"}">>
object_json_spaced(ms) ==
    <<" ", "{", " ">> \o members_json(ms, 1, <<" ", ",", "\n", " ">>) \o <<" ", "}", "\n">>

\* #[derive(Serialize)] of SurrealJWTClaims<T>: the fields under their wire
\* names, in the order of the struct.
claims_members(c) ==
    <<[key |-> ClaimsFields[1].key, val |-> NumV(c.iat)],
      [key |-> ClaimsFields[2].key, val |-> NumV(c.nbf)],
      [key |-> ClaimsFields[3].key, val |-> NumV(c.exp)],
      [key |-> ClaimsFields[4].key, val |-> StrV(c.iss)],
      [key |-> ClaimsFields[5].key, val |-> StrV(c.jti)],
      [key |-> ClaimsFields[6].key, val |-> StrV(c.ns)],
      [key |-> ClaimsFields[7].key, val |-> StrV(c.db)],
      [key |-> ClaimsFields[8].key,
       val |-> [t |-> c.ac.t, neg |-> FALSE, n |-> c.ac.n, str |-> c.ac.str]],
      [key |-> ClaimsFields[9].key, val |-> StrV(c.id)]>>

to_vec(c) == as_bytes(object_json(claims_members(c)))

MkClaims(iat, nbf, exp, iss, ac) ==
    [iat |-> iat, nbf |-> nbf, exp |-> exp, iss |-> iss, jti |-> <<"j">>,
     ns |-> <<"n">>, db |-> <<"d">>,
     ac |-> [t |-> ac.t, n |-> ac.n, str |-> ac.str], id |-> <<"u">>]

MaxTime == 2
MaxTail == 2

\* Claims of every order of the three times, of two issuers, of both types of
\* access claims, and of times of the size of real ones.
ClaimsSet ==
    {MkClaims(t[1], t[2], t[3], <<"a">>, StrV(<<"x">>)) :
        t \in (0..MaxTime) \X (0..MaxTime) \X (0..MaxTime)}
    \cup {MkClaims(1, 1, 2, <<"e", "v", "i", "l">>, StrV(<<"x">>)),
          MkClaims(1, 1, 2, <<"a">>, NumV(7)),
          MkClaims(1700000000, 1700000060, 1700003600, <<"a">>, StrV(<<>>))}

Sample == MkClaims(1, 0, 2, <<"a">>, StrV(<<"x">>))
SampleMembers == claims_members(Sample)

\* The members without the one at place f, and with the one at f changed.
Without(ms, f) == [i \in 1..(Len(ms) - 1) |-> IF i < f THEN ms[i] ELSE ms[i + 1]]
With(ms, f, key, val) == [ms EXCEPT ![f] = [key |-> key, val |-> val]]

Payload(seg, class, c) == [seg |-> seg, class |-> class, claims |-> c]

\* Payloads that hold the claims c.
GoodPayloads ==
    {Payload(URL_SAFE_NO_PAD_encode(to_vec(c)), "claims", c) : c \in ClaimsSet}
    \cup {Payload(URL_SAFE_NO_PAD_encode(as_bytes(x)), "claims", Sample) :
            x \in {object_json_spaced(SampleMembers),
                   object_json(<<[key |-> <<"x">>, val |-> NumV(1)]>> \o SampleMembers),
                   object_json(SampleMembers \o <<[key |-> <<"n", "s">>, val |-> NegV(1)]>>),
                   object_json(Without(SampleMembers, 1) \o <<SampleMembers[1]>>)}}

\* Payloads whose bytes are not the JSON of claims.
BadJsonTexts ==
    {<<>>, <<"h", "e", "l", "l", "o">>, <<"{", "}">>, <<"7">>,
     object_json(SampleMembers) \o <<"x">>,
     object_json(SampleMembers) \o object_json(SampleMembers),
     SubSeq(object_json(SampleMembers), 1, Len(object_json(SampleMembers)) - 1),
     object_json(SampleMembers \o <<SampleMembers[1]>>),
     object_json(With(SampleMembers, 1, <<"i", "a", "t">>, StrV(<<"1">>))),
     object_json(With(SampleMembers, 3, <<"e", "x", "p">>, NegV(1))),
     object_json(With(SampleMembers, 4, <<"i", "s", "s">>, NumV(1))),
     object_json(With(SampleMembers, 6, <<"n", "s">>, StrV(<<"n">>)))}
    \cup {object_json(Without(SampleMembers, f)) : f \in 1..NFields}

BadPayloads ==
    {Payload(URL_SAFE_NO_PAD_encode(as_bytes(x)), "payload", Sample) : x \in BadJsonTexts}
    \cup {Payload(URL_SAFE_NO_PAD_encode(<<200, 201>>), "payload", Sample)}

\* The '=' padding of the padded alphabet.
Padding(seg) ==
    CASE Len(seg) % 4 = 2 -> <<"=", "=">>
      [] Len(seg) % 4 = 3 -> <<"=">>
      [] OTHER -> <<>>

\* Payloads that are not unpadded base64url: a symbol of another alphabet, a
\* length of one over a multiple of four, bits after the last byte, padding.
BadEncodings ==
    {Payload(x, "encoding", Sample) :
        x \in {<<"!", "!">>, <<"e", "+", "/", "w">>, <<"e", " ", "w">>, <<"A">>,
               <<"e", "w", "A", "A", "e">>, <<"Q", "R">>, <<"e", "w", "B">>,
               <<"Q", "Q", "=", "=">>}}
    \cup {Payload(p.seg \o Padding(p.seg), "encoding", p.claims) :
            p \in {q \in GoodPayloads : Len(q.seg) % 4 # 0}}

TokenPayloads == GoodPayloads \cup BadPayloads \cup BadEncodings

\* The type parameter T of the access claims.
AcTypes == {"String", "u64"}

\* What the payload is for Claims<T>: claims whose access claims are not a T
\* do not match it.
ClassFor(p, T) ==
    IF p.class = "claims" /\ p.claims.ac.t # (IF T = "u64" THEN "num" ELSE "str")
    THEN "payload" ELSE p.class

RECURSIVE join_from(_, _)
join_from(segs, i) ==
    IF i > Len(segs) THEN <<>>
    ELSE (IF i > 1 THEN <<".">> ELSE <<>>) \o segs[i] \o join_from(segs, i + 1)

\* The token of the segments.
Token(segs) == join_from(segs, 1)

Headers == {<<>>, <<"h">>}
Tails ==
    {[i \in 1..n |-> <<c>>] : n \in 0..MaxTail, c \in {"s", "t"}} \cup {<< <<>> >>}

\* The segments around a payload: a header before it and any number of
\* segments after it, or nothing at all (the payload is then the only segment).
Envelopes ==
    {[bare |-> FALSE, header |-> h, tail |-> t] : h \in Headers, t \in Tails}
    \cup {[bare |-> TRUE, header |-> <<>>, tail |-> <<>>]}

Segments(env, seg) == IF env.bare THEN <<seg>> ELSE <<env.header, seg>> \o env.tail

InitToken ==
    /\ \E p \in TokenPayloads, env \in Envelopes, T \in AcTypes :
          /\ call = [op |-> "decode_payload_insecurely",
                     token |-> Token(Segments(env, p.seg)), T |-> T]
          /\ made = [segs |-> Len(Segments(env, p.seg)), class |-> ClassFor(p, T),
                     claims |-> p.claims]
    /\ ret = NoRet
    /\ sink = "absent"
    /\ log = <<>>
    /\ prev = NoRet

DecodePayloadInsecurely ==
    /\ Pending("decode_payload_insecurely")
    /\ ret' = decode_payload_insecurely(call.token, call.T)
    /\ Quiet

\* A second call, on a token that holds the same segment 1 between another
\* header and other segments after it; prev keeps the first call.
DecodeSamePayloadAgain ==
    /\ call.op = "decode_payload_insecurely"
    /\ Done
    /\ prev = NoRet
    /\ made.segs >= 2
    /\ \E env \in Envelopes :
          /\ ~env.bare
          /\ LET token == Token(Segments(env, split(call.token, ".")[2]))
             IN /\ token # call.token
                /\ call' = [call EXCEPT !.token = token]
                /\ ret' = decode_payload_insecurely(token, call.T)
          /\ made' = [made EXCEPT !.segs = 2 + Len(env.tail)]
    /\ prev' = [call |-> call, ret |-> ret]
    /\ UNCHANGED <<sink, log>>

NextToken == DecodePayloadInsecurely \/ DecodeSamePayloadAgain

SpecToken == InitToken /\ [][NextToken]_vars

\* The segment at index 1 of a token.
Segment1(token) == split(token, ".")[2]

\* C2: decode_payload_insecurely fails with one of three distinguishable errors,
\* the first stage's that fails: the missing-payload error when the token has
\* fewer than two segments, base64's DecodeError when segment 1 is not unpadded
\* base64url, serde_json's Error when the decoded bytes are not JSON matching
\* the claims (a required field missing, say); a failure is never replaced by
\* claims made up by default: claims returned are the claims of the payload.
C2_ErrorOfTheFirstFailingStage ==
    Done /\ call.op = "decode_payload_insecurely"
    => /\ made.segs < 2 => ret = Err("Invalid JWT format: missing payload")
       /\ made.segs >= 2 /\ made.class = "encoding" => ret = Err("base64::DecodeError")
       /\ made.segs >= 2 /\ made.class = "payload" => ret = Err("serde_json::Error")
       /\ ret.kind = "Ok" => made.class = "claims" /\ ret.claims = made.claims

C2_Witness ==
    /\ Done
    /\ call.op = "decode_payload_insecurely"
    /\ Len(split(call.token, ".")) = 3
    /\ Segment1(call.token) =
         URL_SAFE_NO_PAD_encode(as_bytes(object_json(Without(SampleMembers, 3))))
    /\ ret = Err("serde_json::Error")

\* C3: decode_payload_insecurely returns an error whenever the token does not
\* have three parts separated by dots (two parts, or four and more, are
\* rejected even when the second part is a valid payload).
C3_ErrorUnlessThreeParts ==
    Done /\ call.op = "decode_payload_insecurely" /\ made.segs # 3
    => ret.kind = "Err"

=============================================================================
